---------------------------- MODULE Spec2Model ----------------------------
(***************************************************************************)
(* Model of payxn-io/askpayxn: the mention-polling daemon                  *)
(* (src/twitter_bot.py), the text-to-thread generator                      *)
(* (src/thread_creator.py) and the direct-query CLI (src/direct_query.py). *)
(*                                                                         *)
(* Text is a sequence of one-character strings.  Two characters of the     *)
(* source cannot be written in a TLA+ string and are spelled with a        *)
(* stand-in: the backtick is "'" (BACKTICK) and the bullet U+2022 is "@"   *)
(* (BULLET).                                                               *)
(***************************************************************************)
EXTENDS Integers, Sequences, FiniteSets, TLC

VARIABLES
    mode,               \* which entry point runs: "daemon", "cli", "thread_creator"
    pc,                 \* position in that entry point's code
    cycle,              \* number of poll cycles started (twitter_bot.main, while True)
    last_processed_id,  \* twitter_bot.main: last_processed_id (None is NoId)
    cycle_start_id,     \* value of last_processed_id when the current cycle started
    initial_mentions,   \* twitter_bot.main: initial_mentions
    mentions,           \* twitter_bot.main: mentions (newest first)
    mention,            \* twitter_bot.main / process_mention: mention (its id)
    raw_text,           \* generate_twitter_thread: raw_text
    thread,             \* the TwitterThread returned by generate_twitter_thread
    posts,              \* create_tweet calls that succeeded in the current publish
    calls,              \* external calls made in the current cycle / run, in order
    reply_count,        \* per mention id: publishes that posted a first reply to it
    report,             \* the outcome printed for the current cycle / run
    printed,            \* the thread printed by direct_query.main / thread_creator.main
    reply_to_id,        \* direct_query.main: reply_to
    dry_run,            \* direct_query.main: dry_run
    seen,               \* history: ids some earlier fetch returned
    passed_over,        \* history: ids first listed below a mention that was dispatched
    failed_ids,         \* history: ids whose process_mention ended in its except clause
    prev_mention,       \* history: the mention dispatched before the current one
    raw_tweet,          \* generate_twitter_thread, line 111: tweet, before its clean-up
    cleaned_tweet,      \* generate_twitter_thread, line 121: cleaned_tweet
    recleaned_tweet     \* the clean-up of lines 113-121 applied to cleaned_tweet

vars == <<mode, pc, cycle, last_processed_id, cycle_start_id, initial_mentions,
          mentions, mention, raw_text, thread, posts, calls, reply_count,
          report, printed, reply_to_id, dry_run,
          seen, passed_over, failed_ids, prev_mention,
          raw_tweet, cleaned_tweet, recleaned_tweet>>

clean_vars == <<raw_tweet, cleaned_tweet, recleaned_tweet>>

hist == <<seen, passed_over, failed_ids, prev_mention>>

---------------------------------------------------------------------------
(* Bounds of the model *)

MaxId == 2        \* mention ids are 1..MaxId
MaxList == 2      \* longest mention list a fetch returns in the model
MaxCycles == 3    \* poll cycles explored
MaxLines == 4     \* longest raw text (in lines) given to the parser
MaxChars == 6     \* longest tweet (in characters) given to the clean-up on its own

---------------------------------------------------------------------------
(* Characters and Python's string primitives *)

BACKTICK == "'"
BULLET == "@"
NL == "\n"
Whitespace == {" ", NL, "\t"}

RECURSIVE SplitFrom(_, _, _)
SplitFrom(s, sep, cur) ==
    IF s = <<>> THEN <<cur>>
    ELSE IF Head(s) = sep THEN <<cur>> \o SplitFrom(Tail(s), sep, <<>>)
    ELSE SplitFrom(Tail(s), sep, Append(cur, Head(s)))

\* str.split(sep) with a one-character separator
split(s, sep) == SplitFrom(s, sep, <<>>)

RECURSIVE lstrip(_)
lstrip(s) == IF s # <<>> /\ Head(s) \in Whitespace THEN lstrip(Tail(s)) ELSE s

RECURSIVE rstrip(_)
rstrip(s) ==
    IF s # <<>> /\ s[Len(s)] \in Whitespace THEN rstrip(SubSeq(s, 1, Len(s) - 1)) ELSE s

\* str.strip()
strip(s) == rstrip(lstrip(s))

\* str.startswith(prefix)
startswith(s, prefix) ==
    Len(s) >= Len(prefix) /\ SubSeq(s, 1, Len(prefix)) = prefix

\* c in s
contains(s, c) == \E i \in 1..Len(s) : s[i] = c

RECURSIVE join(_, _)
\* sep.join(parts)
join(sep, parts) ==
    IF parts = <<>> THEN <<>>
    ELSE IF Len(parts) = 1 THEN parts[1]
    ELSE parts[1] \o sep \o join(sep, Tail(parts))

RECURSIVE replace(_, _, _)
\* str.replace(old, new): leftmost non-overlapping occurrences, old non-empty
replace(s, old, new) ==
    IF Len(s) < Len(old) THEN s
    ELSE IF startswith(s, old) THEN new \o replace(SubSeq(s, Len(old) + 1, Len(s)), old, new)
    ELSE <<Head(s)>> \o replace(Tail(s), old, new)

RECURSIVE WordsFrom(_, _)
WordsFrom(s, cur) ==
    IF s = <<>> THEN (IF cur = <<>> THEN <<>> ELSE <<cur>>)
    ELSE IF Head(s) \in Whitespace
         THEN (IF cur = <<>> THEN <<>> ELSE <<cur>>) \o WordsFrom(Tail(s), <<>>)
         ELSE WordsFrom(Tail(s), Append(cur, Head(s)))

\* str.split() without argument: the whitespace-separated words
words(s) == WordsFrom(s, <<>>)

\* line.split(":", 1)[1]: what follows the first colon (the line holds one)
AfterColon(line) ==
    LET i == CHOOSE k \in 1..Len(line) :
                 line[k] = ":" /\ \A j \in 1..(k - 1) : line[j] # ":"
    IN  SubSeq(line, i + 1, Len(line))

---------------------------------------------------------------------------
(* thread_creator.generate_twitter_thread, lines 88-131 *)

TweetPrefix == <<"T", "w", "e", "e", "t", " ">>

\* line 93: the test that makes a line open a new tweet
IsTweetLine(line) == startswith(line, TweetPrefix) /\ contains(line, ":")

RECURSIVE ParseLines_KeepsBlank(_, _, _)
ParseLines_KeepsBlank(lines, tweets, current_tweet) ==
    IF lines = <<>> THEN [tweets |-> tweets, current_tweet |-> current_tweet]
    ELSE LET line == strip(Head(lines)) IN
         IF IsTweetLine(line)
         THEN ParseLines_KeepsBlank(Tail(lines),
                                    IF current_tweet # <<>>
                                    THEN Append(tweets, join(<<NL>>, current_tweet))
                                    ELSE tweets,
                                    <<strip(AfterColon(line))>>)
         ELSE IF current_tweet # <<>>
         THEN ParseLines_KeepsBlank(Tail(lines), tweets, Append(current_tweet, line))
         ELSE ParseLines_KeepsBlank(Tail(lines), tweets, current_tweet)

RECURSIVE ParseLines(_, _, _)
\* lines 91-103: the scan, carrying tweets and current_tweet
ParseLines(lines, tweets, current_tweet) ==
    IF lines = <<>> THEN [tweets |-> tweets, current_tweet |-> current_tweet]
    ELSE LET line == strip(Head(lines)) IN
         IF IsTweetLine(line)
         THEN ParseLines(Tail(lines),
                         IF current_tweet # <<>>
                         THEN Append(tweets, join(<<NL>>, current_tweet))
                         ELSE tweets,
                         <<strip(AfterColon(line))>>)
         ELSE IF line # <<>> /\ current_tweet # <<>>
         THEN ParseLines(Tail(lines), tweets, Append(current_tweet, line))
         ELSE ParseLines(Tail(lines), tweets, current_tweet)

\* lines 89-107: the tweets collected from raw_text
CollectTweets(text) ==
    LET r == ParseLines(split(text, NL), <<>>, <<>>)
    IN  IF r.current_tweet # <<>>
        THEN Append(r.tweets, join(<<NL>>, r.current_tweet))
        ELSE r.tweets

CleanTweet_NoCollapse(tweet) ==
    LET t1 == replace(tweet, <<BACKTICK>>, <<>>)
        t2 == replace(replace(t1, <<"*", "*">>, <<>>), <<"*">>, <<>>)
    IN  replace(replace(t2, <<BULLET>>, <<" ", BULLET, " ">>),
                <<" ", " ", BULLET, " ", " ">>, <<" ", BULLET, " ">>)

CleanTweet_BoldOnly(tweet) ==
    LET t1 == replace(tweet, <<BACKTICK>>, <<>>)
        t2 == replace(t1, <<"*", "*">>, <<>>)
        t3 == replace(replace(t2, <<BULLET>>, <<" ", BULLET, " ">>),
                      <<" ", " ", BULLET, " ", " ">>, <<" ", BULLET, " ">>)
        lines == split(t3, NL)
        cleaned_lines == [i \in 1..Len(lines) |-> join(<<" ">>, words(lines[i]))]
    IN  join(<<NL>>, cleaned_lines)

\* lines 113-121: the clean-up of one tweet
CleanTweet(tweet) ==
    LET t1 == replace(tweet, <<BACKTICK>>, <<>>)
        t2 == replace(replace(t1, <<"*", "*">>, <<>>), <<"*">>, <<>>)
        t3 == replace(replace(t2, <<BULLET>>, <<" ", BULLET, " ">>),
                      <<" ", " ", BULLET, " ", " ">>, <<" ", BULLET, " ">>)
        lines == split(t3, NL)
        cleaned_lines == [i \in 1..Len(lines) |-> join(<<" ">>, words(lines[i]))]
    IN  join(<<NL>>, cleaned_lines)

\* lines 110-122
CleanTweets(tweets) == [i \in 1..Len(tweets) |-> CleanTweet(tweets[i])]

RECURSIVE PadTweets_Two(_)
PadTweets_Two(cleaned_tweets) ==
    IF Len(cleaned_tweets) < 2 THEN PadTweets_Two(Append(cleaned_tweets, <<>>))
    ELSE cleaned_tweets

RECURSIVE PadTweets(_)
\* lines 125-126: while len(cleaned_tweets) < 3: append("")
PadTweets(cleaned_tweets) ==
    IF Len(cleaned_tweets) < 3 THEN PadTweets(Append(cleaned_tweets, <<>>))
    ELSE cleaned_tweets

IndexError == [error |-> "IndexError"]

\* lines 129-131: TwitterThread(tweet1=c[0], tweet2=c[1], tweet3=c[2])
TwitterThread(cleaned_tweets) ==
    IF Len(cleaned_tweets) < 3 THEN IndexError
    ELSE [tweet1 |-> cleaned_tweets[1],
          tweet2 |-> cleaned_tweets[2],
          tweet3 |-> cleaned_tweets[3]]

\* lines 88-131: what generate_twitter_thread makes of the model's raw_text
ParseThread(text) == TwitterThread(PadTweets(CleanTweets(CollectTweets(text))))

---------------------------------------------------------------------------
(* Sample lines and texts *)

LineBlank == <<>>
LineTweet1 == <<"T", "w", "e", "e", "t", " ", "1", ":", " ", "A">>
LineTweet2 == <<"T", "w", "e", "e", "t", " ", "2", ":">>
LineTweet3 == <<"T", "w", "e", "e", "t", " ", "3", ":", " ", "C">>
LinePlain == <<"B">>
LineMarkdown == <<" ", BULLET, BACKTICK, "x", BACKTICK, " ", " ", "*", "*", "y", "*", "*">>
LineGas ==
    <<"T", "w", "e", "e", "t", " ", "a", "b", "o", "u", "t", " ", "g", "a", "s", ":",
      " ", "5">>
LineRule == <<"*", "*", "*">>
LineTweet2B == <<"T", "w", "e", "e", "t", " ", "2", ":", " ", "B">>

\* the lines the parser's inputs are made of
LineSet ==
    {LineBlank, LineTweet1, LineTweet2, LinePlain, LineMarkdown, LineGas, LineRule}

\* a well-formed answer: three marker lines with one line of content each
ThreeTweets == join(<<NL>>, <<LineTweet1, LineTweet2B, LineTweet3>>)

\* every text of at most MaxLines lines of LineSet, and the well-formed answer
\* (raw_text of line 86)
ParseInputs ==
    {join(<<NL>>, ls) : ls \in UNION {[1..n -> LineSet] : n \in 0..MaxLines}}
        \cup {ThreeTweets}

\* the alphabet of the clean-up: the two markdown characters, the bullet,
\* the two kinds of whitespace and a letter
CleanAlphabet == {BACKTICK, "*", BULLET, " ", NL, "a"}

CleanInputs == UNION {[1..n -> CleanAlphabet] : n \in 0..MaxChars}

\* the raw texts the thread agent returns in the daemon and the CLI:
\* a well-formed three-tweet answer and an answer with a single tweet
RawTexts ==
    {join(<<NL>>, <<LineTweet1, LineTweet2, LineMarkdown, LineTweet3>>),
     join(<<NL>>, <<LinePlain, LineTweet1>>)}

---------------------------------------------------------------------------
(* Values *)

\* None, for an id (twitter_bot.py line 96, direct_query.py line 121)
NoId == 0

MentionIds == 1..MaxId

Range(s) == {s[i] : i \in 1..Len(s)}

RECURSIVE Descending(_)
Descending(s) == Len(s) < 2 \/ (s[1] > s[2] /\ Descending(Tail(s)))

\* what get_recent_mentions can return: mentions newest first (ids grow with
\* time), each list at most MaxList long
MentionLists ==
    {l \in UNION {[1..n -> MentionIds] : n \in 0..MaxList} : Descending(l)}

NoThread == [error |-> "unset"]
NoReport == [kind |-> "none"]

\* the id the platform returns for a new post: fresh within the thread and
\* different from every mention id
NewPostId(made) == MaxId + Len(made) + 1

\* seconds of the two sleeps of twitter_bot.main
IntervalSeconds == 15 * 60
RetrySeconds == 60

SleepSeconds(at) == IF at = "sleep_retry" THEN RetrySeconds ELSE IntervalSeconds

---------------------------------------------------------------------------
(* twitter_bot.py: the daemon *)

Called(name) == \E i \in 1..Len(calls) : calls[i] = name

CountCalls(name) == Cardinality({i \in 1..Len(calls) : calls[i] = name})

InitialWatermark_Oldest(initial) ==
    IF initial # <<>> THEN initial[Len(initial)] ELSE NoId

\* lines 96-99: the watermark recorded at startup
InitialWatermark(initial) ==
    IF initial # <<>> THEN initial[1] ELSE NoId

NewMention_Oldest(fetched) == fetched[Len(fetched)]

\* line 110: mention = mentions[0]
NewMention(fetched) == fetched[1]

IsNewMention_WatermarkSet(fetched, last) ==
    fetched # <<>> /\ last # NoId /\ last # fetched[1]

\* line 108: the test for a new mention
IsNewMention(fetched, last) == fetched # <<>> /\ last # fetched[1]

MainLoopExcept_Exits == "crashed"

MainLoopExcept_FullSleep == "sleep_interval"

\* lines 122-124: where an exception raised inside the loop's try leads
MainLoopExcept == "sleep_retry"

ProcessMentionFailed_Propagates(last, m) ==
    [pc |-> MainLoopExcept, last_processed_id |-> last, at |-> "main loop"]

\* lines 85-86, then 114-120: process_mention catches every exception, prints
\* it and returns, so main goes on with line 114 and the interval sleep
ProcessMentionFailed(last, m) ==
    [pc |-> "sleep_interval", last_processed_id |-> m, at |-> "process_mention"]

\* line 80: tweet3 = post_reply(thread.tweet3, tweet2.data.id)
Tweet3ReplyTo(made) == made[2].id

\* line 93, outside the loop's try: the startup fetch
StartupFetch ==
    /\ mode = "daemon" /\ pc = "start"
    /\ \E fetched \in MentionLists :
          /\ initial_mentions' = fetched
          /\ last_processed_id' = InitialWatermark(fetched)
    /\ cycle_start_id' = last_processed_id'
    /\ calls' = <<"get_recent_mentions">>
    /\ seen' = Range(initial_mentions')
    /\ pc' = "poll"
    /\ UNCHANGED <<passed_over, failed_ids, prev_mention>>
    /\ UNCHANGED <<mode, cycle, mentions, mention, raw_text, thread, posts,
                   reply_count, report, printed, reply_to_id, dry_run>>
    /\ UNCHANGED clean_vars

\* line 93 raises: nothing catches it, main ends with the exception
StartupFetchRaises ==
    /\ mode = "daemon" /\ pc = "start"
    /\ calls' = <<"get_recent_mentions">>
    /\ report' = [kind |-> "error", at |-> "uncaught", exc |-> "get_recent_mentions"]
    /\ pc' = "crashed"
    /\ UNCHANGED <<mode, cycle, last_processed_id, cycle_start_id, initial_mentions,
                   mentions, mention, raw_text, thread, posts, reply_count,
                   printed, reply_to_id, dry_run, hist>>
    /\ UNCHANGED clean_vars

\* lines 105-116: a poll that fetched; no new mention goes to the sleep of line 120
PollFetch ==
    /\ mode = "daemon" /\ pc = "poll" /\ cycle < MaxCycles
    /\ cycle' = cycle + 1
    /\ cycle_start_id' = last_processed_id
    /\ calls' = <<"get_recent_mentions">>
    /\ posts' = <<>>
    /\ \E fetched \in MentionLists :
          /\ mentions' = fetched
          /\ seen' = seen \cup Range(fetched)
          /\ IF IsNewMention(fetched, last_processed_id)
             THEN /\ mention' = NewMention(fetched)
                  /\ report' = NoReport
                  /\ pc' = "agent"
                  /\ prev_mention' = mention
                  /\ passed_over' = passed_over \cup (Range(Tail(fetched)) \ seen)
             ELSE /\ mention' = mention
                  /\ report' = [kind |-> "no new mentions"]
                  /\ pc' = "sleep_interval"
                  /\ UNCHANGED <<prev_mention, passed_over>>
    /\ UNCHANGED failed_ids
    /\ UNCHANGED <<mode, last_processed_id, initial_mentions, raw_text, thread,
                   reply_count, printed, reply_to_id, dry_run>>
    /\ UNCHANGED clean_vars

\* line 106 raises: caught at line 122
PollFetchRaises ==
    /\ mode = "daemon" /\ pc = "poll" /\ cycle < MaxCycles
    /\ cycle' = cycle + 1
    /\ cycle_start_id' = last_processed_id
    /\ calls' = <<"get_recent_mentions">>
    /\ posts' = <<>>
    /\ report' = [kind |-> "error", at |-> "main loop", exc |-> "get_recent_mentions"]
    /\ pc' = MainLoopExcept
    /\ UNCHANGED <<mode, last_processed_id, initial_mentions, mentions, mention,
                   raw_text, thread, reply_count, printed, reply_to_id, dry_run,
                   hist>>
    /\ UNCHANGED clean_vars

\* an exception inside process_mention's try, raised by the call named exc
ProcessMentionRaises(exc) ==
    LET next == ProcessMentionFailed(last_processed_id, mention) IN
    /\ calls' = Append(calls, exc)
    /\ report' = [kind |-> "error", at |-> next.at, exc |-> exc]
    /\ last_processed_id' = next.last_processed_id
    /\ pc' = next.pc
    /\ failed_ids' = failed_ids \cup {mention}
    /\ UNCHANGED <<seen, passed_over, prev_mention>>

\* line 62: result = await blockchain_agent.run(mention.text)
AgentRun ==
    /\ mode = "daemon" /\ pc = "agent"
    /\ calls' = Append(calls, "blockchain_agent.run")
    /\ pc' = "generate"
    /\ UNCHANGED <<mode, cycle, last_processed_id, cycle_start_id, initial_mentions,
                   mentions, mention, raw_text, thread, posts, reply_count, report,
                   printed, reply_to_id, dry_run, hist>>
    /\ UNCHANGED clean_vars

AgentRunRaises ==
    /\ mode = "daemon" /\ pc = "agent"
    /\ ProcessMentionRaises("blockchain_agent.run")
    /\ UNCHANGED <<mode, cycle, cycle_start_id, initial_mentions, mentions, mention,
                   raw_text, thread, posts, reply_count, printed, reply_to_id, dry_run>>
    /\ UNCHANGED clean_vars

\* line 66: thread = await generate_twitter_thread(tx_data)
GenerateThread ==
    /\ mode = "daemon" /\ pc = "generate"
    /\ calls' = Append(calls, "agent.run")
    /\ \E text \in RawTexts :
          /\ raw_text' = text
          /\ thread' = ParseThread(text)
    /\ pc' = "post1"
    /\ UNCHANGED <<mode, cycle, last_processed_id, cycle_start_id, initial_mentions,
                   mentions, mention, posts, reply_count, report, printed, reply_to_id, dry_run,
                   hist>>
    /\ UNCHANGED clean_vars

\* line 66 raises (agent.run of thread_creator.py line 85)
GenerateThreadRaises ==
    /\ mode = "daemon" /\ pc = "generate"
    /\ ProcessMentionRaises("agent.run")
    /\ UNCHANGED <<mode, cycle, cycle_start_id, initial_mentions, mentions, mention,
                   raw_text, thread, posts, reply_count, printed, reply_to_id, dry_run>>
    /\ UNCHANGED clean_vars

\* post_reply (lines 36-37) succeeding: the post is made and its id returned
Posted(text, in_reply_to) ==
    /\ posts' = Append(posts, [text |-> text, in_reply_to_tweet_id |-> in_reply_to,
                               id |-> NewPostId(posts)])
    /\ calls' = Append(calls, "create_tweet")

\* line 72: tweet1 = post_reply(thread.tweet1, original_tweet_id)
PostTweet1 ==
    /\ mode = "daemon" /\ pc = "post1"
    /\ Posted(thread.tweet1, mention)
    /\ reply_count' = [reply_count EXCEPT ![mention] = @ + 1]
    /\ pc' = "post2"
    /\ UNCHANGED <<mode, cycle, last_processed_id, cycle_start_id, initial_mentions,
                   mentions, mention, raw_text, thread, report, printed, reply_to_id, dry_run,
                   hist>>
    /\ UNCHANGED clean_vars

\* line 76: tweet2 = post_reply(thread.tweet2, tweet1.data.id)
PostTweet2 ==
    /\ mode = "daemon" /\ pc = "post2"
    /\ Posted(thread.tweet2, posts[1].id)
    /\ pc' = "post3"
    /\ UNCHANGED <<mode, cycle, last_processed_id, cycle_start_id, initial_mentions,
                   mentions, mention, raw_text, thread, reply_count, report,
                   printed, reply_to_id, dry_run, hist>>
    /\ UNCHANGED clean_vars

\* lines 80-83, then 114-120: the third post, the success message, the return to
\* main, the assignment of line 114 and the interval sleep
PostTweet3 ==
    /\ mode = "daemon" /\ pc = "post3"
    /\ Posted(thread.tweet3, Tweet3ReplyTo(posts))
    /\ report' = [kind |-> "success", mention |-> mention]
    /\ last_processed_id' = mention
    /\ pc' = "sleep_interval"
    /\ UNCHANGED <<mode, cycle, cycle_start_id, initial_mentions, mentions, mention,
                   raw_text, thread, reply_count, printed, reply_to_id, dry_run,
                   hist>>
    /\ UNCHANGED clean_vars

PostsAfterFailure_RolledBack(made) == <<>>

\* lines 85-86 (and direct_query.py 173-175): the handler of a failed post
\* prints the error and deletes nothing, the posts made stay
PostsAfterFailure(made) == made

\* one of the post_reply calls of lines 72, 76, 80 raises
PostTweetRaises ==
    /\ mode = "daemon" /\ pc \in {"post1", "post2", "post3"}
    /\ ProcessMentionRaises("create_tweet")
    /\ posts' = PostsAfterFailure(posts)
    /\ UNCHANGED <<mode, cycle, cycle_start_id, initial_mentions, mentions, mention,
                   raw_text, thread, reply_count, printed, reply_to_id, dry_run>>
    /\ UNCHANGED clean_vars

\* line 120: time.sleep(15 * 60), then the next iteration
SleepInterval ==
    /\ mode = "daemon" /\ pc = "sleep_interval"
    /\ pc' = "poll"
    /\ UNCHANGED <<mode, cycle, last_processed_id, cycle_start_id, initial_mentions,
                   mentions, mention, raw_text, thread, posts, calls, reply_count,
                   report, printed, reply_to_id, dry_run, hist>>
    /\ UNCHANGED clean_vars

\* line 124: time.sleep(60), then the next iteration
SleepRetry ==
    /\ mode = "daemon" /\ pc = "sleep_retry"
    /\ pc' = "poll"
    /\ UNCHANGED <<mode, cycle, last_processed_id, cycle_start_id, initial_mentions,
                   mentions, mention, raw_text, thread, posts, calls, reply_count,
                   report, printed, reply_to_id, dry_run, hist>>
    /\ UNCHANGED clean_vars

DaemonNext ==
    \/ StartupFetch \/ StartupFetchRaises
    \/ PollFetch \/ PollFetchRaises
    \/ AgentRun \/ AgentRunRaises
    \/ GenerateThread \/ GenerateThreadRaises
    \/ PostTweet1 \/ PostTweet2 \/ PostTweet3 \/ PostTweetRaises
    \/ SleepInterval \/ SleepRetry

---------------------------------------------------------------------------
(* direct_query.py: the CLI *)

\* lines 103-129: the query, the optional reply target and the posting choice
CliInput ==
    /\ mode = "cli" /\ pc = "cli_input"
    /\ reply_to_id' \in {NoId} \cup MentionIds
    /\ dry_run' \in BOOLEAN
    /\ pc' = "cli_query"
    /\ UNCHANGED <<mode, cycle, last_processed_id, cycle_start_id, initial_mentions,
                   mentions, mention, raw_text, thread, posts, calls, reply_count,
                   report, printed, hist>>
    /\ UNCHANGED clean_vars

\* line 134: agent_result = await query_agent(query), a non-empty answer
CliQueryAgent ==
    /\ mode = "cli" /\ pc = "cli_query"
    /\ calls' = Append(calls, "basic_agent.agent.run")
    /\ pc' = "cli_generate"
    /\ UNCHANGED <<mode, cycle, last_processed_id, cycle_start_id, initial_mentions,
                   mentions, mention, raw_text, thread, posts, reply_count, report,
                   printed, reply_to_id, dry_run, hist>>
    /\ UNCHANGED clean_vars

QueryAgentFailed_Reprompts == "cli_input"

\* lines 140 and 145: return, after the report of the failed query
QueryAgentFailed == "cli_exit"

\* lines 136-140: an empty answer; main prints a warning and returns
CliQueryAgentEmpty ==
    /\ mode = "cli" /\ pc = "cli_query"
    /\ calls' = Append(calls, "basic_agent.agent.run")
    /\ report' = [kind |-> "warning", at |-> "query_agent", exc |-> "empty response"]
    /\ pc' = QueryAgentFailed
    /\ UNCHANGED <<mode, cycle, last_processed_id, cycle_start_id, initial_mentions,
                   mentions, mention, raw_text, thread, posts, reply_count, printed,
                   reply_to_id, dry_run, hist>>
    /\ UNCHANGED clean_vars

\* lines 142-145: query_agent raises; main prints the error and returns
CliQueryAgentRaises ==
    /\ mode = "cli" /\ pc = "cli_query"
    /\ calls' = Append(calls, "basic_agent.agent.run")
    /\ report' = [kind |-> "error", at |-> "query_agent", exc |-> "basic_agent.agent.run"]
    /\ pc' = QueryAgentFailed
    /\ UNCHANGED <<mode, cycle, last_processed_id, cycle_start_id, initial_mentions,
                   mentions, mention, raw_text, thread, posts, reply_count, printed,
                   reply_to_id, dry_run, hist>>
    /\ UNCHANGED clean_vars

PostsThread_Always(dry) == TRUE

\* line 169: if not dry_run
PostsThread(dry) == ~dry

\* lines 150, 160-169, 176-177: the thread is generated and printed; a dry run
\* ends here
CliGenerateThread ==
    /\ mode = "cli" /\ pc = "cli_generate"
    /\ calls' = Append(calls, "agent.run")
    /\ \E text \in RawTexts :
          /\ raw_text' = text
          /\ thread' = ParseThread(text)
    /\ printed' = thread'
    /\ IF PostsThread(dry_run)
       THEN report' = report /\ pc' = "cli_post1"
       ELSE report' = [kind |-> "dry run"] /\ pc' = "cli_exit"
    /\ UNCHANGED <<mode, cycle, last_processed_id, cycle_start_id, initial_mentions,
                   mentions, mention, posts, reply_count, reply_to_id, dry_run,
                   hist>>
    /\ UNCHANGED clean_vars

\* lines 151-158: safe_generate_thread raises; main prints the error and returns
CliGenerateThreadRaises ==
    /\ mode = "cli" /\ pc = "cli_generate"
    /\ calls' = Append(calls, "agent.run")
    /\ report' = [kind |-> "error", at |-> "safe_generate_thread", exc |-> "agent.run"]
    /\ pc' = "cli_exit"
    /\ UNCHANGED <<mode, cycle, last_processed_id, cycle_start_id, initial_mentions,
                   mentions, mention, raw_text, thread, posts, reply_count, printed,
                   reply_to_id, dry_run, hist>>
    /\ UNCHANGED clean_vars

Response3ReplyTo_First(made) == made[1].id

\* post_thread, line 43: in_reply_to_tweet_id=response2.data["id"]
Response3ReplyTo(made) == made[2].id

\* post_thread, line 47: return response1.data["id"]
ThreadId(made) == made[1].id

\* post_thread, lines 30-33
CliPostTweet1 ==
    /\ mode = "cli" /\ pc = "cli_post1"
    /\ Posted(thread.tweet1, reply_to_id)
    /\ reply_count' = IF reply_to_id = NoId THEN reply_count
                      ELSE [reply_count EXCEPT ![reply_to_id] = @ + 1]
    /\ pc' = "cli_post2"
    /\ UNCHANGED <<mode, cycle, last_processed_id, cycle_start_id, initial_mentions,
                   mentions, mention, raw_text, thread, report, printed, reply_to_id,
                   dry_run, hist>>
    /\ UNCHANGED clean_vars

\* post_thread, lines 36-39
CliPostTweet2 ==
    /\ mode = "cli" /\ pc = "cli_post2"
    /\ Posted(thread.tweet2, posts[1].id)
    /\ pc' = "cli_post3"
    /\ UNCHANGED <<mode, cycle, last_processed_id, cycle_start_id, initial_mentions,
                   mentions, mention, raw_text, thread, reply_count, report, printed,
                   reply_to_id, dry_run, hist>>
    /\ UNCHANGED clean_vars

\* post_thread, lines 42-47, then main, lines 171-172
CliPostTweet3 ==
    /\ mode = "cli" /\ pc = "cli_post3"
    /\ Posted(thread.tweet3, Response3ReplyTo(posts))
    /\ report' = [kind |-> "success", thread_id |-> ThreadId(posts')]
    /\ pc' = "cli_exit"
    /\ UNCHANGED <<mode, cycle, last_processed_id, cycle_start_id, initial_mentions,
                   mentions, mention, raw_text, thread, reply_count, printed,
                   reply_to_id, dry_run, hist>>
    /\ UNCHANGED clean_vars

CliPostFailed_Success(made) == [kind |-> "success", thread_id |-> NoId]

\* main, lines 173-175: what is printed when post_thread raises
CliPostFailed(made) == [kind |-> "error", at |-> "post_thread", exc |-> "create_tweet"]

\* a create_tweet call of post_thread raises: post_thread has no handler, the
\* exception reaches main, lines 173-175
CliPostTweetRaises ==
    /\ mode = "cli" /\ pc \in {"cli_post1", "cli_post2", "cli_post3"}
    /\ calls' = Append(calls, "create_tweet")
    /\ report' = CliPostFailed(posts)
    /\ posts' = PostsAfterFailure(posts)
    /\ pc' = "cli_exit"
    /\ UNCHANGED <<mode, cycle, last_processed_id, cycle_start_id, initial_mentions,
                   mentions, mention, raw_text, thread, reply_count, printed,
                   reply_to_id, dry_run, hist>>
    /\ UNCHANGED clean_vars

CliNext ==
    \/ CliInput
    \/ CliQueryAgent \/ CliQueryAgentEmpty \/ CliQueryAgentRaises
    \/ CliGenerateThread \/ CliGenerateThreadRaises
    \/ CliPostTweet1 \/ CliPostTweet2 \/ CliPostTweet3 \/ CliPostTweetRaises

---------------------------------------------------------------------------
(* thread_creator.py run on its own: the parser applied to a raw text *)

\* lines 85-131, reached from main, line 171
TcGenerateThread ==
    /\ mode = "thread_creator" /\ pc = "tc_generate"
    /\ calls' = Append(calls, "agent.run")
    /\ thread' = ParseThread(raw_text)
    /\ pc' = "tc_print"
    /\ UNCHANGED <<mode, cycle, last_processed_id, cycle_start_id, initial_mentions,
                   mentions, mention, raw_text, posts, reply_count, report, printed,
                   reply_to_id, dry_run, hist>>
    /\ UNCHANGED clean_vars

\* main, lines 172-174
TcPrint ==
    /\ mode = "thread_creator" /\ pc = "tc_print"
    /\ printed' = thread
    /\ pc' = "tc_exit"
    /\ UNCHANGED <<mode, cycle, last_processed_id, cycle_start_id, initial_mentions,
                   mentions, mention, raw_text, thread, posts, calls, reply_count,
                   report, reply_to_id, dry_run, hist>>
    /\ UNCHANGED clean_vars

---------------------------------------------------------------------------
(* The clean-up of thread_creator.py on its own: one tweet cleaned twice *)

\* lines 111-122, one iteration of the loop over tweets
CleanOnce ==
    /\ mode = "clean" /\ pc = "clean"
    /\ cleaned_tweet' = CleanTweet(raw_tweet)
    /\ pc' = "clean_again"
    /\ UNCHANGED <<mode, cycle, last_processed_id, cycle_start_id, initial_mentions,
                   mentions, mention, raw_text, thread, posts, calls, reply_count,
                   report, printed, reply_to_id, dry_run, hist, raw_tweet,
                   recleaned_tweet>>

\* lines 111-122 again, with the cleaned tweet as the tweet
CleanAgain ==
    /\ mode = "clean" /\ pc = "clean_again"
    /\ recleaned_tweet' = CleanTweet(cleaned_tweet)
    /\ pc' = "clean_done"
    /\ UNCHANGED <<mode, cycle, last_processed_id, cycle_start_id, initial_mentions,
                   mentions, mention, raw_text, thread, posts, calls, reply_count,
                   report, printed, reply_to_id, dry_run, hist, raw_tweet,
                   cleaned_tweet>>

---------------------------------------------------------------------------
(* Specifications *)

Idle ==
    /\ cycle = 0
    /\ last_processed_id = NoId
    /\ cycle_start_id = NoId
    /\ initial_mentions = <<>>
    /\ mentions = <<>>
    /\ mention = NoId
    /\ thread = NoThread
    /\ posts = <<>>
    /\ calls = <<>>
    /\ reply_count = [m \in MentionIds |-> 0]
    /\ report = NoReport
    /\ printed = NoThread
    /\ reply_to_id = NoId
    /\ dry_run = FALSE
    /\ seen = {}
    /\ passed_over = {}
    /\ failed_ids = {}
    /\ prev_mention = NoId

\* no tweet is being cleaned outside generate_twitter_thread
NotCleaning ==
    /\ raw_tweet = <<>>
    /\ cleaned_tweet = <<>>
    /\ recleaned_tweet = <<>>

\* the daemon (python twitter_bot.py) or the CLI (python direct_query.py) starts
Init ==
    /\ mode \in {"daemon", "cli"}
    /\ pc = IF mode = "daemon" THEN "start" ELSE "cli_input"
    /\ raw_text = <<>>
    /\ Idle
    /\ NotCleaning

Next == DaemonNext \/ CliNext

Spec == Init /\ [][Next]_vars

\* the parser on every text of ParseInputs
ParseInit ==
    /\ mode = "thread_creator"
    /\ pc = "tc_generate"
    /\ raw_text \in ParseInputs
    /\ Idle
    /\ NotCleaning

ParseNext == TcGenerateThread \/ TcPrint

ParseSpec == ParseInit /\ [][ParseNext]_vars

\* the clean-up on every text of CleanInputs, applied once and once more
CleanInit ==
    /\ mode = "clean"
    /\ pc = "clean"
    /\ raw_text = <<>>
    /\ Idle
    /\ raw_tweet \in CleanInputs
    /\ cleaned_tweet = <<>>
    /\ recleaned_tweet = <<>>

CleanNext == CleanOnce \/ CleanAgain

CleanSpec == CleanInit /\ [][CleanNext]_vars

---------------------------------------------------------------------------
(* Properties *)

Daemon == mode = "daemon"

AtSleep == pc \in {"sleep_interval", "sleep_retry"}

\* process_mention was entered in the current cycle
Dispatched == pc = "agent" \/ Called("blockchain_agent.run")

\* the loop's fetch raised in the current cycle
FetchRaised ==
    cycle >= 1 /\ report.kind = "error" /\ report.exc = "get_recent_mentions"

\* process_mention ended in its except clause in the current cycle
ProcessingFailed == report.kind = "error" /\ report.at = "process_mention"

\* a create_tweet call of the current publish raised
PublishFailed == CountCalls("create_tweet") = Len(posts) + 1

Segment(t, i) == IF i = 1 THEN t.tweet1 ELSE IF i = 2 THEN t.tweet2 ELSE t.tweet3

\* C1 as stated: at the end of a daemon cycle last_processed_id is the
\* detected mention's id only if agent, thread generation and the three posts
\* succeeded, and after any failure it is the value from the cycle's start.
C1_AdvanceOnlyOnSuccess ==
    (Daemon /\ cycle >= 1 /\ AtSleep) =>
        last_processed_id =
            IF report.kind = "success" THEN mention ELSE cycle_start_id

\* C1 amended: last_processed_id keeps the cycle's start value while the
\* mention is being processed, and once process_mention has returned it is the
\* detected mention's id, whether or not agent, generation and posts
\* succeeded; a cycle that detected nothing or whose fetch raised leaves it
\* unchanged.
C1_AdvanceOnEveryDispatch ==
    (Daemon /\ cycle >= 1) =>
        /\ pc \in {"agent", "generate", "post1", "post2", "post3"}
              => last_processed_id = cycle_start_id
        /\ pc \in {"sleep_interval", "sleep_retry", "poll"}
              => last_processed_id =
                     IF Called("blockchain_agent.run") THEN mention
                     ELSE cycle_start_id

C1_FailedAndAdvanced ==
    /\ Daemon /\ pc = "sleep_interval"
    /\ ProcessingFailed
    /\ last_processed_id = mention
    /\ last_processed_id # cycle_start_id

\* C2 as stated: no mention id receives a first reply in more than one cycle,
\* whatever lists the polls return.
C2_NoDoublePosting ==
    Daemon => \A m \in MentionIds : reply_count[m] <= 1

\* C3: after a fetch that raised inside the loop, last_processed_id is the
\* value from the cycle's start, the fetch is the cycle's only call, nothing
\* was posted, and the daemon is at the retry sleep or back at the next poll.
C3_FetchErrorIsolated ==
    (Daemon /\ FetchRaised) =>
        /\ pc \in {"sleep_retry", "poll"}
        /\ last_processed_id = cycle_start_id
        /\ calls = <<"get_recent_mentions">>
        /\ posts = <<>>

C3_BackAtPollAfterFetchError ==
    /\ Daemon /\ FetchRaised
    /\ pc = "poll" /\ cycle < MaxCycles
    /\ last_processed_id # NoId

\* C4: the parser returns a thread of exactly three segments for every text;
\* segment i is the i-th cleaned collected tweet when there is one and the
\* empty string otherwise, so collected tweets beyond the third are dropped.
C4_ThreeSegments ==
    (mode = "thread_creator" /\ pc \in {"tc_print", "tc_exit"}) =>
        LET collected == CleanTweets(CollectTweets(raw_text)) IN
        /\ DOMAIN thread = {"tweet1", "tweet2", "tweet3"}
        /\ \A i \in 1..3 :
              Segment(thread, i) =
                  IF i <= Len(collected) THEN collected[i] ELSE <<>>

C4_MoreThanThreeCollected ==
    /\ mode = "thread_creator" /\ pc = "tc_print"
    /\ Len(CollectTweets(raw_text)) > 3
    /\ thread.tweet3 # <<>>

\* C5: with a non-empty startup list last_processed_id is the id of its newest
\* mention and startup dispatches nothing; a first poll that returns the same
\* newest mention dispatches nothing either.
C5_StartupWatermark ==
    (Daemon /\ initial_mentions # <<>>) =>
        /\ (cycle = 0 /\ pc = "poll") =>
              /\ last_processed_id = initial_mentions[1]
              /\ mention = NoId
              /\ calls = <<"get_recent_mentions">>
              /\ posts = <<>>
        /\ (cycle = 1 /\ mentions # <<>> /\ mentions[1] = initial_mentions[1]) =>
              /\ pc \in {"sleep_interval", "poll"}
              /\ report = [kind |-> "no new mentions"]
              /\ calls = <<"get_recent_mentions">>
              /\ posts = <<>>
              /\ last_processed_id = initial_mentions[1]

C5_SameNewestAfterStartup ==
    /\ Daemon /\ cycle = 1 /\ pc = "sleep_interval"
    /\ Len(initial_mentions) = 2
    /\ mentions # <<>> /\ mentions[1] = initial_mentions[1]

\* C6 as stated: a cycle dispatches at most one mention, the newest of the
\* fetched list, and a mention that was passed over below a dispatched one is
\* not dispatched in any later cycle.
C6_PassedOverNeverDispatched ==
    (Daemon /\ Dispatched) =>
        /\ mention = mentions[1]
        /\ CountCalls("blockchain_agent.run") <= 1
        /\ mention \notin passed_over

\* C6 amended: a cycle dispatches at most one mention and it is the newest
\* element of the list fetched in that cycle, never an older element and never
\* the watermark; so a passed-over mention is dispatched later only in a cycle
\* whose fetched list has it as newest element.
C6_OnlyNewestDispatched ==
    (Daemon /\ Dispatched) =>
        /\ mentions # <<>>
        /\ mention = mentions[1]
        /\ mention # cycle_start_id
        /\ \A i \in 2..Len(mentions) : mentions[i] # mention
        /\ CountCalls("blockchain_agent.run") <= 1
        /\ posts # <<>> => posts[1].in_reply_to_tweet_id = mentions[1]

C6_PassedOverDispatchedLater ==
    /\ Daemon /\ pc = "agent"
    /\ mention \in passed_over
    /\ mention = mentions[1]

\* C7: the posts of a publish are, in order, segment 1 in reply to the given
\* id (the mention in the daemon, reply_to in the CLI), segment 2 in reply to
\* the id returned for segment 1 and segment 3 in reply to the id returned for
\* segment 2; a successful publish made exactly three create_tweet calls, and
\* post_thread returns the id returned for segment 1.
C7_PublishChain ==
    /\ Len(posts) <= 3
    /\ \A i \in 1..Len(posts) :
          /\ posts[i].text = Segment(thread, i)
          /\ posts[i].in_reply_to_tweet_id =
                 IF i > 1 THEN posts[i - 1].id
                 ELSE IF Daemon THEN mention ELSE reply_to_id
    /\ report.kind = "success" =>
          /\ Len(posts) = 3
          /\ CountCalls("create_tweet") = 3
          /\ mode = "cli" => report.thread_id = posts[1].id

C7_ThreadPosted ==
    /\ mode = "cli" /\ pc = "cli_exit"
    /\ report.kind = "success"
    /\ reply_to_id # NoId
    /\ Len(posts) = 3

\* C8 as stated: when the k-th post call fails the outcome is a failure that
\* carries the number k-1 of segments already posted.
C8_FailureCarriesCount ==
    PublishFailed =>
        /\ report.kind = "error"
        /\ "posted" \in DOMAIN report
        /\ report.posted = Len(posts)

\* C8 amended: when the k-th post call fails the publish ends with the error
\* of that call being printed, never the success message; the k-1 earlier
\* posts stay, no further post call is made, and the printed outcome names the
\* failing call only, not the number of segments posted.
C8_FailureReported ==
    PublishFailed =>
        /\ report.kind = "error"
        /\ report.exc = "create_tweet"
        /\ DOMAIN report = {"kind", "at", "exc"}
        /\ Len(posts) \in 0..2
        /\ pc \in {"sleep_interval", "poll", "cli_exit"}

C8_SecondPostFailed ==
    /\ PublishFailed
    /\ Len(posts) = 1
    /\ report.kind = "error"

\* C9 as stated: a cycle in which any exception occurred is followed by the
\* 60 s sleep, a cycle without exception by the 900 s sleep.
C9_SleepByException ==
    (Daemon /\ AtSleep) =>
        SleepSeconds(pc) =
            IF report.kind = "error" THEN RetrySeconds ELSE IntervalSeconds

\* C9 amended: a cycle is followed by the 60 s sleep exactly when its fetch
\* raised; every other cycle, also one in which the agent run, the thread
\* generation or a post raised, is followed by the 900 s sleep.
C9_SleepByFetchError ==
    (Daemon /\ AtSleep) =>
        SleepSeconds(pc) =
            IF FetchRaised THEN RetrySeconds ELSE IntervalSeconds

C9_FullSleepAfterFailure ==
    /\ Daemon /\ pc = "sleep_interval"
    /\ ProcessingFailed
    /\ SleepSeconds(pc) = 900

C11_NeverStops ==
    Daemon => pc # "crashed"

\* the caller of generate_twitter_thread was told of a failure of that call
GenerationFailed == report.kind = "error" /\ report.exc = "agent.run"

IsTwitterThread(t) == DOMAIN t = {"tweet1", "tweet2", "tweet3"}

\* C12 as stated: thread generation never signals a failure to its caller, so
\* no daemon cycle and no CLI run ends in an error of that stage.
C12_GenerationNeverFails ==
    ~GenerationFailed

\* C12 amended: once generate_twitter_thread has the raw text, it returns a
\* TwitterThread of three segments whatever the text is, and the publish steps
\* only ever run on such a thread; the step as a whole fails exactly when its
\* agent.run call raises, and then the caller handles it: the daemon cycle
\* ends in process_mention's handler with nothing posted, the CLI run ends
\* with nothing printed and nothing posted.
C12_OnlyAgentCallFails ==
    /\ pc \in {"post1", "post2", "post3", "cli_post1", "cli_post2", "cli_post3"}
          => IsTwitterThread(thread) /\ thread = ParseThread(raw_text)
    /\ GenerationFailed =>
          /\ calls[Len(calls)] = "agent.run"
          /\ posts = <<>>
          /\ IF Daemon
             THEN report.at = "process_mention" /\ pc \in {"sleep_interval", "poll"}
             ELSE report.at = "safe_generate_thread" /\ pc = "cli_exit"
                  /\ printed = NoThread

C12_GenerationFailedInCycle ==
    /\ Daemon /\ pc = "sleep_interval"
    /\ GenerationFailed
    /\ Called("blockchain_agent.run")
    /\ posts = <<>>

\* C13: the clean-up is idempotent: for every tweet over the alphabet of
\* backtick, asterisk, bullet, space, newline and a letter, cleaning the
\* cleaned tweet again gives the cleaned tweet.
C13_CleanIdempotent ==
    (mode = "clean" /\ pc = "clean_done") => recleaned_tweet = cleaned_tweet

C13_CleanedTwice ==
    /\ mode = "clean" /\ pc = "clean_done"
    /\ contains(raw_tweet, BULLET) /\ contains(raw_tweet, "*")
    /\ contains(raw_tweet, BACKTICK) /\ contains(raw_tweet, " ")
    /\ cleaned_tweet # raw_tweet
    /\ contains(cleaned_tweet, BULLET)
    /\ recleaned_tweet = cleaned_tweet

\* the tweets as collected by lines 88-107 from the raw text, before clean-up
Collected == CollectTweets(raw_text)

\* the thread of the raw text has been returned
Parsed == mode = "thread_creator" /\ pc \in {"tc_print", "tc_exit"}

NonWhitespace(s) == SelectSeq(s, LAMBDA c : c \notin Whitespace)

NonMarkdown(s) == SelectSeq(s, LAMBDA c : c \notin {BACKTICK, "*"})

\* C14: no segment of the returned thread contains a backtick or an asterisk,
\* and the other non-whitespace characters of the collected segment text are
\* all kept, in their order.
C14_MarkdownStripped ==
    Parsed =>
        \A i \in 1..3 :
            /\ ~contains(Segment(thread, i), BACKTICK)
            /\ ~contains(Segment(thread, i), "*")
            /\ NonWhitespace(Segment(thread, i)) =
                   IF i <= Len(Collected)
                   THEN NonWhitespace(NonMarkdown(Collected[i]))
                   ELSE <<>>

C14_MarkdownCollected ==
    /\ Parsed
    /\ Len(Collected) >= 1
    /\ contains(Collected[1], BACKTICK)
    /\ contains(Collected[1], "*")
    /\ contains(Collected[1], BULLET)
    /\ contains(thread.tweet1, BULLET)
    /\ contains(thread.tweet1, "x") /\ contains(thread.tweet1, "y")

Digits == {"0", "1", "2", "3", "4", "5", "6", "7", "8", "9"}

RECURSIVE LeadingDigits(_)
LeadingDigits(s) ==
    IF s # <<>> /\ Head(s) \in Digits THEN 1 + LeadingDigits(Tail(s)) ELSE 0

\* a marker line in the format the prompt asks for (lines 63-67) and the
\* comment of line 99 names: "Tweet N:", N an ordinal
IsOrdinalMarker(line) ==
    /\ startswith(line, TweetPrefix)
    /\ LET rest == SubSeq(line, Len(TweetPrefix) + 1, Len(line))
           n == LeadingDigits(rest)
       IN  n >= 1 /\ n < Len(rest) /\ rest[n + 1] = ":"

RECURSIVE ContentUpToMarker(_)
\* the non-blank lines, trimmed, up to the next "Tweet N:" line
ContentUpToMarker(lines) ==
    IF lines = <<>> THEN <<>>
    ELSE LET line == strip(Head(lines)) IN
         IF IsOrdinalMarker(line) THEN <<>>
         ELSE (IF line = <<>> THEN <<>> ELSE <<line>>)
                  \o ContentUpToMarker(Tail(lines))

RECURSIVE MarkerSegments(_)
\* for each "Tweet N:" line in input order: what follows its colon, and the
\* content lines up to the next "Tweet N:" line
MarkerSegments(lines) ==
    IF lines = <<>> THEN <<>>
    ELSE LET line == strip(Head(lines)) IN
         IF IsOrdinalMarker(line)
         THEN <<join(<<NL>>, <<strip(AfterColon(line))>>
                                 \o ContentUpToMarker(Tail(lines)))>>
                  \o MarkerSegments(Tail(lines))
         ELSE MarkerSegments(Tail(lines))

\* C15 as stated: for a raw text with at most three "Tweet N:" lines, segment
\* i of the thread is the cleaned content that follows the i-th such line
\* (the text after its colon and the content lines up to the next one), and
\* the segments without such a line are empty.
C15_MarkerOrdering ==
    Parsed =>
        LET segments == MarkerSegments(split(raw_text, NL)) IN
        Len(segments) <= 3 =>
            \A i \in 1..3 :
                Segment(thread, i) =
                    IF i <= Len(segments) THEN CleanTweet(segments[i]) ELSE <<>>

Cli == mode = "cli"

\* the CLI run printed a generated thread
ThreadPrinted == IsTwitterThread(printed)

\* C16: a CLI run in which the user declines posting queries the agent,
\* generates and prints the thread and makes no post call; a run in which the
\* user accepts posts nothing before the thread is printed, and what it posts
\* are the segments it printed.  (A run whose agent query or thread generation
\* fails ends there, whatever the answer was.)
C16_DryRunSkipsOnlyPosting ==
    (Cli /\ pc # "cli_input") =>
        /\ dry_run =>
              /\ ~Called("create_tweet") /\ posts = <<>>
              /\ pc = "cli_exit" => Called("basic_agent.agent.run")
              /\ (pc = "cli_exit" /\ report.kind # "error" /\ report.kind # "warning")
                    => /\ Called("agent.run")
                       /\ ThreadPrinted /\ printed = thread
                       /\ report.kind = "dry run"
        /\ (~dry_run /\ Called("create_tweet")) =>
              /\ ThreadPrinted /\ printed = thread
              /\ \A i \in 1..Len(posts) : posts[i].text = Segment(printed, i)
        /\ ThreadPrinted => printed = ParseThread(raw_text)

C16_DryRunPrinted ==
    /\ Cli /\ pc = "cli_exit" /\ dry_run
    /\ report.kind = "dry run"
    /\ ThreadPrinted /\ printed.tweet1 # <<>>
    /\ posts = <<>>

\* a poll of the current cycle returned a non-empty list while
\* last_processed_id was None
EmptyWatermarkPoll ==
    /\ Daemon /\ cycle >= 1 /\ ~FetchRaised
    /\ cycle_start_id = NoId
    /\ mentions # <<>>

\* C17 as stated: a poll that returns a non-empty list while last_processed_id
\* is empty dispatches no mention and only records the newest id.
C17_EmptyWatermarkOnlyRecords ==
    EmptyWatermarkPoll =>
        /\ ~Dispatched
        /\ AtSleep => last_processed_id = mentions[1]

\* C17 amended: such a poll treats the newest mention as new: the cycle
\* dispatches it and records its id once its processing has ended; recording
\* without dispatching is what the startup fetch does, before the first cycle.
C17_EmptyWatermarkDispatches ==
    /\ EmptyWatermarkPoll =>
          /\ Dispatched /\ mention = mentions[1]
          /\ pc \in {"sleep_interval", "poll"} => last_processed_id = mentions[1]
    /\ (Daemon /\ cycle = 0 /\ pc = "poll") =>
          /\ ~Dispatched
          /\ last_processed_id = InitialWatermark(initial_mentions)

C17_FirstMentionAnswered ==
    /\ EmptyWatermarkPoll
    /\ initial_mentions = <<>>
    /\ pc = "sleep_interval" /\ report.kind = "success"
    /\ reply_count[mentions[1]] = 1
    /\ last_processed_id = mentions[1]

\* C18 as stated: a line opens a new segment exactly when, trimmed, it is a
\* "Tweet N:" line; a content line that begins with "Tweet " and has a colon
\* further on is appended to the open segment.  So the tweets collected from a
\* raw text are those of its "Tweet N:" lines, each with its content lines.
C18_MarkerRecognition ==
    Parsed => Collected = MarkerSegments(split(raw_text, NL))

\* the raw text without its blank lines
WithoutBlankLines(text) ==
    join(<<NL>>, SelectSeq(split(text, NL), LAMBDA l : strip(l) # <<>>))

\* some line of the text other than its first and its last is empty
EmptyLineInside(text) ==
    LET ls == split(text, NL) IN \E k \in 2..(Len(ls) - 1) : ls[k] = <<>>

\* the text of the claim's example: 'Tweet 1: A', a blank line, 'B'
BlankBetween == join(<<NL>>, <<LineTweet1, LineBlank, LinePlain>>)

\* C19 as stated: blank lines are never appended to a segment and never
\* separate segments, and no segment of the returned thread has an empty line
\* between two of its lines.
C19_NoEmptyLineInside ==
    Parsed =>
        /\ thread = ParseThread(WithoutBlankLines(raw_text))
        /\ \A i \in 1..3 : ~EmptyLineInside(Segment(thread, i))

\* C19 amended: blank lines of the raw text are never appended to a tweet and
\* never separate tweets: the thread is that of the text without them, and
\* only the first line of a collected tweet can be empty (a marker line with
\* nothing after its colon).  A returned segment has an empty line after its
\* first line only where the content line consisted of backticks and
\* asterisks, which the clean-up removed.  'Tweet 1: A', blank, 'B' gives
\* segment 1 = "A\nB".
C19_BlankLinesDropped ==
    Parsed =>
        /\ thread = ParseThread(WithoutBlankLines(raw_text))
        /\ \A i \in 1..Len(Collected) :
              LET collected_lines == split(Collected[i], NL)
                  segment_lines == split(CleanTweet(Collected[i]), NL)
              IN  /\ Len(segment_lines) = Len(collected_lines)
                  /\ \A k \in 2..Len(collected_lines) :
                        /\ collected_lines[k] # <<>>
                        /\ segment_lines[k] = <<>> =>
                              NonWhitespace(NonMarkdown(collected_lines[k])) = <<>>
        /\ raw_text = BlankBetween => thread.tweet1 = <<"A", NL, "B">>

C19_BlankLineBetweenContent ==
    /\ Parsed
    /\ raw_text = BlankBetween
    /\ thread.tweet1 = <<"A", NL, "B">>

RECURSIVE DropPreamble(_)
\* the lines from the first "Tweet N:" line on
DropPreamble(lines) ==
    IF lines = <<>> \/ IsOrdinalMarker(strip(Head(lines))) THEN lines
    ELSE DropPreamble(Tail(lines))

\* C20 as stated: the lines before the first "Tweet N:" line contribute to no
\* segment, so the thread is that of the text from that line on; and a
\* "Tweet N:" line with nothing after its colon opens a tweet whose first line
\* is empty and to which the next content line is appended.
C20_PreambleDiscarded ==
    Parsed =>
        LET lines == split(raw_text, NL) IN
        /\ thread = ParseThread(join(<<NL>>, DropPreamble(lines)))
        /\ \A j \in 1..(Len(lines) - 1) :
              LET line == strip(lines[j])
                  next_line == strip(lines[j + 1])
              IN  ( /\ IsOrdinalMarker(line) /\ strip(AfterColon(line)) = <<>>
                    /\ next_line # <<>> /\ ~IsOrdinalMarker(next_line) )
                  => \E i \in 1..Len(Collected) :
                         startswith(Collected[i], <<NL>> \o next_line)

\* the CLI's agent call raised or returned an empty response
AgentQueryFailed ==
    /\ report.kind \in {"error", "warning"}
    /\ report.at = "query_agent"

\* C21 as stated: when the agent call raises or returns an empty response in
\* the CLI, the failure is reported, no thread is generated, no post call is
\* made, and the user is prompted again for a query instead of the run ending.
C21_RepromptAfterAgentFailure ==
    (Cli /\ AgentQueryFailed) =>
        /\ thread = NoThread /\ ~Called("agent.run")
        /\ posts = <<>> /\ ~Called("create_tweet")
        /\ pc = "cli_input"

\* C21 amended: in that case the failure is reported, no thread is generated
\* or printed, no post call is made, and the run ends there: main returns, no
\* further step of the run is possible and the user is not prompted again.
C21_RunEndsAfterAgentFailure ==
    (Cli /\ AgentQueryFailed) =>
        /\ thread = NoThread /\ ~Called("agent.run")
        /\ printed = NoThread
        /\ posts = <<>> /\ ~Called("create_tweet")
        /\ CountCalls("basic_agent.agent.run") = 1
        /\ pc = "cli_exit"
        /\ ~ENABLED Next

C21_EmptyResponseReported ==
    /\ Cli /\ pc = "cli_exit"
    /\ report.kind = "warning" /\ report.at = "query_agent"
    /\ Called("basic_agent.agent.run")
    /\ ~dry_run

\* a create_tweet call of the current publish raised and was reported
PostFailed == report.kind = "error" /\ report.exc = "create_tweet"

\* C22: when the k-th post call of a publish fails, no post call for a later
\* segment is made and the k-1 posts already made stay published: the failed
\* call is the last call of the cycle or run, and the thread stays with 0, 1
\* or 2 of its segments posted, in order.
C22_NoRollbackNoContinuation ==
    PostFailed =>
        /\ calls[Len(calls)] = "create_tweet"
        /\ Len(posts) = CountCalls("create_tweet") - 1
        /\ Len(posts) \in 0..2
        /\ \A i \in 1..Len(posts) : posts[i].text = Segment(thread, i)
        /\ pc \in {"sleep_interval", "poll", "cli_exit"}

C22_TwoOfThreePosted ==
    /\ Daemon /\ pc = "sleep_interval"
    /\ PostFailed
    /\ Len(posts) = 2
    /\ posts[2].in_reply_to_tweet_id = posts[1].id
    /\ CountCalls("create_tweet") = 3

\* the current daemon cycle has ended (it sleeps, or is back at the fetch)
CycleEnded ==
    Daemon /\ cycle >= 1 /\ pc \in {"sleep_interval", "sleep_retry", "poll"}

\* C23: at the end of every daemon cycle whose fetch returned a non-empty
\* list, last_processed_id is the id of the newest mention of that list;
\* last_processed_id differs from its value at the cycle's start only in a
\* cycle that detected a new mention; and once it is not None it is never
\* None again.
C23_WatermarkTracksNewest ==
    /\ (CycleEnded /\ ~FetchRaised /\ mentions # <<>>)
          => last_processed_id = mentions[1]
    /\ (Daemon /\ cycle >= 1 /\ last_processed_id # cycle_start_id)
          => /\ Dispatched /\ ~FetchRaised
             /\ last_processed_id = mention
             /\ IsNewMention(mentions, cycle_start_id)
    /\ (Daemon /\ cycle >= 1 /\ cycle_start_id # NoId) => last_processed_id # NoId
    /\ (Daemon /\ pc \notin {"start", "crashed"} /\ initial_mentions # <<>>)
          => last_processed_id # NoId

C23_WatermarkMovedToNewest ==
    /\ CycleEnded /\ pc = "sleep_interval"
    /\ report.kind = "success"
    /\ Len(mentions) = 2
    /\ cycle_start_id \notin {NoId, mentions[1]}
    /\ last_processed_id = mentions[1]

=============================================================================
